---- MODULE Spec2Model ----
(***************************************************************************)
(* SAIF rejection email generator (saif_rejection_agent.py).               *)
(*                                                                         *)
(* Python str values are TLA+ strings; the string operators below are the  *)
(* str methods the program uses (lower, strip, split, in, startswith),     *)
(* computed character by character.  Optional[str] is a record             *)
(* [some, str]; None is the record with some = FALSE.                      *)
(***************************************************************************)
EXTENDS Integers, Sequences, FiniteSets, TLC

(* ------------------------------ bounds -------------------------------- *)

\* longest rejection_reasons list handed to the composer
MaxReasons == 2

\* most lines typed for the description in interactive mode
MaxDescriptionLines == 1

\* most calls followed one after the other
MaxCalls == 2

(* --------------------------- str operations --------------------------- *)

\* s[i] as a one-character string (1-based)
CharAt(s, i) == SubSeq(s, i, i)

\* s.startswith(p)
StartsWith(s, p) == Len(p) <= Len(s) /\ SubSeq(s, 1, Len(p)) = p

\* s.endswith(p)
EndsWith(s, p) == Len(p) <= Len(s) /\ SubSeq(s, Len(s) - Len(p) + 1, Len(s)) = p

\* the Python expression `sub in s` on two str values
Contains(s, sub) ==
  \E i \in 1..(Len(s) - Len(sub) + 1) : SubSeq(s, i, i + Len(sub) - 1) = sub

\* the case mapping str.lower applies to ASCII text
UpperToLower ==
  "A" :> "a" @@ "B" :> "b" @@ "C" :> "c" @@ "D" :> "d" @@ "E" :> "e" @@
  "F" :> "f" @@ "G" :> "g" @@ "H" :> "h" @@ "I" :> "i" @@ "J" :> "j" @@
  "K" :> "k" @@ "L" :> "l" @@ "M" :> "m" @@ "N" :> "n" @@ "O" :> "o" @@
  "P" :> "p" @@ "Q" :> "q" @@ "R" :> "r" @@ "S" :> "s" @@ "T" :> "t" @@
  "U" :> "u" @@ "V" :> "v" @@ "W" :> "w" @@ "X" :> "x" @@ "Y" :> "y" @@
  "Z" :> "z"

LowerChar(c) == IF c \in DOMAIN UpperToLower THEN UpperToLower[c] ELSE c

RECURSIVE Lower(_)
\* s.lower()
Lower(s) ==
  IF s = "" THEN ""
  ELSE LowerChar(CharAt(s, 1)) \o Lower(SubSeq(s, 2, Len(s)))

\* the characters str.strip() removes (ASCII whitespace)
Whitespace == {" ", "\t", "\n", "\r"}

RECURSIVE LStrip(_)
LStrip(s) ==
  IF s # "" /\ CharAt(s, 1) \in Whitespace THEN LStrip(SubSeq(s, 2, Len(s)))
  ELSE s

RECURSIVE RStrip(_)
RStrip(s) ==
  IF s # "" /\ CharAt(s, Len(s)) \in Whitespace
  THEN RStrip(SubSeq(s, 1, Len(s) - 1))
  ELSE s

\* s.strip()
Strip(s) == RStrip(LStrip(s))

RECURSIVE SplitFrom(_, _, _)
\* the fields of s from position i on, `start` being where the current one began
SplitFrom(s, start, i) ==
  IF i > Len(s) THEN <<SubSeq(s, start, Len(s))>>
  ELSE IF CharAt(s, i) = ","
       THEN <<SubSeq(s, start, i - 1)>> \o SplitFrom(s, i + 1, i + 1)
       ELSE SplitFrom(s, start, i + 1)

\* s.split(",")
SplitComma(s) == SplitFrom(s, 1, 1)

RECURSIVE Join(_, _)
\* sep.join(parts)
Join(sep, parts) ==
  IF parts = <<>> THEN ""
  ELSE IF Len(parts) = 1 THEN parts[1]
  ELSE parts[1] \o sep \o Join(sep, Tail(parts))

RECURSIVE Repeat(_, _)
\* s * n
Repeat(s, n) == IF n <= 0 THEN "" ELSE s \o Repeat(s, n - 1)

DigitValue ==
  "0" :> 0 @@ "1" :> 1 @@ "2" :> 2 @@ "3" :> 3 @@ "4" :> 4 @@
  "5" :> 5 @@ "6" :> 6 @@ "7" :> 7 @@ "8" :> 8 @@ "9" :> 9

IsDigit(c) == c \in DOMAIN DigitValue

\* digits, with single underscores allowed between two digits
IsDigitRun(s) ==
  /\ s # ""
  /\ IsDigit(CharAt(s, 1))
  /\ IsDigit(CharAt(s, Len(s)))
  /\ \A i \in 1..Len(s) :
       \/ IsDigit(CharAt(s, i))
       \/ CharAt(s, i) = "_" /\ IsDigit(CharAt(s, i - 1)) /\ IsDigit(CharAt(s, i + 1))

\* the sign of an int literal, if it has one
HasSign(s) == s # "" /\ CharAt(s, 1) \in {"+", "-"}

Unsigned(s) == IF HasSign(s) THEN SubSeq(s, 2, Len(s)) ELSE s

\* whether int(s) returns (otherwise it raises ValueError)
IntParses(s) == IsDigitRun(Unsigned(Strip(s)))

RECURSIVE DigitsValue(_, _)
DigitsValue(s, acc) ==
  IF s = "" THEN acc
  ELSE IF CharAt(s, 1) = "_" THEN DigitsValue(SubSeq(s, 2, Len(s)), acc)
  ELSE DigitsValue(SubSeq(s, 2, Len(s)), 10 * acc + DigitValue[CharAt(s, 1)])

\* int(s), for s that parses
IntOf(s) ==
  LET t == Strip(s)
      v == DigitsValue(Unsigned(t), 0)
  IN  IF HasSign(t) /\ CharAt(t, 1) = "-" THEN 0 - v ELSE v

(* ------------------------------ Optional ------------------------------ *)

None == [some |-> FALSE, str |-> ""]

Some(s) == [some |-> TRUE, str |-> s]

\* the truth value Python gives an Optional[str] in `if x:` and `x or y`
Truthy(o) == o.some /\ o.str # ""

(* ------------------------------ catalog ------------------------------- *)

\* REJECTION_TEMPLATES as declared: an insertion-ordered dict, here the
\* sequence of its items
CatalogDeclaration ==
  <<
    [tag |-> "not_ai_safety",
     summary |-> "Product is not focused on AI safety",
     template |-> "Your work on {product_focus} is meaningful and clearly impactful. However, {company_name} is focused on {actual_focus} rather than on technologies that directly improve safety and security in the presence of risks created by advanced AI systems. Because of this, the project falls outside the scope of SAIF's investment mandate."],
    [tag |-> "early_stage_no_team",
     summary |-> "Too early stage with incomplete founding team",
     template |-> "{product_area} is an important direction, and we can see why this category will matter as agentic systems become more widely deployed. However, {company_name} is still at a very early stage, and we generally look for teams with a committed founding group, clear technical ownership, and a more defined product trajectory before engaging as investors. Given the current state of the team and the work, we don't believe this is the right fit for SAIF at this time."],
    [tag |-> "no_tech_cofounder",
     summary |-> "Lacks technical founding leadership",
     template |-> "{problem_statement} is an important problem, and we can see the appeal of a product that {product_appeal}. However, SAIF typically looks for teams with strong technical founding leadership given the complexity and competitiveness of building safety-critical AI systems. At this stage, and without a technical cofounder driving the core system, we don't believe {company_name} is the right fit for SAIF's focus."],
    [tag |-> "too_conceptual",
     summary |-> "Approach is too conceptual or lacks clear technical pathway",
     template |-> "Your proposal explores ambitious ideas around {topic_area}. However, the approach as described is highly conceptual, and it's difficult for us to assess a clear technical pathway, feasibility, or near-term product direction. SAIF's focus is on companies building practical, deployable technologies that can be validated and scaled to improve safety and security in real-world AI systems, and {company_name} does not currently align with that focus."],
    [tag |-> "safety_angle_unclear",
     summary |-> "Safety impact is not clear or central to the product",
     template |-> "{company_name}'s approach to {product_description} is thoughtful, and we can see how tools like this could be valuable for {target_users}. However, SAIF's focus is on companies building products that directly improve safety and security in the presence of advanced AI systems, and we are not yet convinced that {company_name}'s safety impact is sufficiently clear or central to the product. In addition, we typically look for teams with a full-time founder."],
    [tag |-> "not_for_profit",
     summary |-> "Not a for-profit company with scalable business model",
     template |-> "We appreciate the work you've put into {company_name} and your commitment to developing {mission}. However, SAIF is structured specifically to invest in for-profit companies with scalable business models. As {company_name} is {structure} and won't be offering equity to investors, we do not see a clear path for sufficient venture funding to be raised. Additionally, it is unclear to us that {distribution_concern}."],
    [tag |-> "general_not_aligned",
     summary |-> "General non-alignment with SAIF focus",
     template |-> "We appreciate your ambition to {mission}. However, {company_name} appears primarily focused on {actual_focus}, which, while potentially impactful, are not aligned with SAIF's mission. Our focus is specifically centered on companies building products that directly improve safety and security in the presence of threats caused or created by AI systems. Given this focus, {category} sit outside the scope of what we fund."]
  >>

\* list(d.keys())
Keys(d) == [i \in DOMAIN d |-> d[i].tag]

\* key in d
HasKey(d, key) == \E i \in DOMAIN d : d[i].tag = key

\* d[key], for a key of d
Lookup(d, key) == d[CHOOSE i \in DOMAIN d : d[i].tag = key]

\* the training examples print_examples() holds
examples ==
  <<
    [company |-> "WormAI, Inc. (Sec0)",
     reason |-> "Early stage, no cofounder",
     email |-> "Hi Ashish,\n\nThanks very much for expressing interest in being part of SAIF and our efforts to create a better future with AI. Unfortunately at this time we don't think that Sec0 fits within the criteria we are using for our fund.\n\nWrapping agent workflows with governance, monitoring, and control layers is an important direction, and we can see why this category will matter as agentic systems become more widely deployed. However, Sec0 is still at a very early stage, and we generally look for teams with a committed founding group, clear technical ownership, and a more defined product trajectory before engaging as investors. Given the current state of the team and the work, we don't believe this is the right fit for SAIF at this time.\n\nWe wish you the best as you continue developing the idea and building toward a more complete product.\n\nBest,\nThe SAIF Team"],
    [company |-> "Tova",
     reason |-> "No technical cofounder",
     email |-> "Hi there,\n\nThanks very much for expressing interest in being part of SAIF and our efforts to create a better future with AI. Unfortunately at this time we don't think that Tova fits within the criteria we are using for our fund.\n\nHelping users detect scams and risky interactions in real time is an important problem, and we can see the appeal of a product that integrates directly into messaging and financial platforms. However, SAIF typically looks for teams with strong technical founding leadership given the complexity and competitiveness of building safety-critical AI systems. At this stage, and without a technical cofounder driving the core system, we don't believe Tova is the right fit for SAIF's focus.\n\nWe wish you the best as you continue developing the product and exploring partnerships.\n\nBest,\nThe SAIF Team"],
    [company |-> "VAITION",
     reason |-> "Too conceptual",
     email |-> "Hi Vadim,\n\nThanks very much for expressing interest in being part of SAIF and our efforts to create a better future with AI. Unfortunately at this time we don't think that VAITION fits within the criteria we are using for our fund.\n\nYour proposal explores ambitious ideas around human presence and trust in digital systems. However, the approach as described is highly conceptual, and it's difficult for us to assess a clear technical pathway, feasibility, or near-term product direction. SAIF's focus is on companies building practical, deployable technologies that can be validated and scaled to improve safety and security in real-world AI systems, and VAITION does not currently align with that focus.\n\nWe appreciate you reaching out and wish you the best as you continue developing your ideas.\n\nBest,\nThe SAIF Team"]
  >>

(* ------------------------------- state -------------------------------- *)

VARIABLES
  REJECTION_TEMPLATES,  \* the module-level catalog dict (sequence of its items)
  pc,                   \* "idle": no call in progress; "returned": a call has ended
  entry,                \* the function the caller invoked ("" when idle)
  args,                 \* <<ns>>: the argparse Namespace main parsed; <<>>: not main
  stdin,                \* the lines typed at the input() prompts
  application,          \* <<app>>: the Application passed in or constructed; <<>>: none
  ret,                  \* the str the called function returned ("" when it returns None)
  stdout,               \* what print() and the input() prompts wrote, in order
  raised,               \* the exception that ended the call ("" when it returned)
  consulted,            \* catalog reads generate_feedback_paragraph made in the call
  calls                 \* calls completed so far

vars ==
  <<REJECTION_TEMPLATES, pc, entry, args, stdin, application, ret, stdout,
    raised, consulted, calls>>

(* ---------------------------- the composer ---------------------------- *)

\* the sentence returned when rejection_reasons is empty
EmptyReasonsFeedback(application_) ==
  "While we appreciate your submission, " \o application_.company_name
    \o " does not currently align with our investment criteria."

\* the sentence returned when the primary reason is not a catalog key
UnknownReasonFeedback ==
  "The project does not currently align with SAIF's focus on companies building practical technologies that directly improve safety and security in real-world AI systems."

\* variant: the empty list falls through to the unknown-tag sentence
generate_feedback_paragraph_one_fallback(application_) ==
  IF application_.rejection_reasons = <<>>
  THEN UnknownReasonFeedback
  ELSE LET primary_reason == application_.rejection_reasons[1]
       IN  IF HasKey(REJECTION_TEMPLATES, primary_reason)
           THEN LET template_info == Lookup(REJECTION_TEMPLATES, primary_reason)
                IN  "[TEMPLATE: " \o template_info.summary \o "]\n"
                      \o template_info.template
           ELSE UnknownReasonFeedback

\* variant: an unknown tag gets the empty-list sentence
generate_feedback_paragraph_cites_company(application_) ==
  IF application_.rejection_reasons = <<>>
  THEN EmptyReasonsFeedback(application_)
  ELSE LET primary_reason == application_.rejection_reasons[1]
       IN  IF HasKey(REJECTION_TEMPLATES, primary_reason)
           THEN LET template_info == Lookup(REJECTION_TEMPLATES, primary_reason)
                IN  "[TEMPLATE: " \o template_info.summary \o "]\n"
                      \o template_info.template
           ELSE EmptyReasonsFeedback(application_)

\* variant: the label is followed by the summary, not the template body
generate_feedback_paragraph_summary_only(application_) ==
  IF application_.rejection_reasons = <<>>
  THEN EmptyReasonsFeedback(application_)
  ELSE LET primary_reason == application_.rejection_reasons[1]
       IN  IF HasKey(REJECTION_TEMPLATES, primary_reason)
           THEN LET template_info == Lookup(REJECTION_TEMPLATES, primary_reason)
                IN  "[TEMPLATE: " \o template_info.summary \o "]\n"
                      \o template_info.summary
           ELSE UnknownReasonFeedback

\* variant: the primary reason is the last element, rejection_reasons[-1]
generate_feedback_paragraph_last_reason(application_) ==
  IF application_.rejection_reasons = <<>>
  THEN EmptyReasonsFeedback(application_)
  ELSE LET primary_reason ==
             application_.rejection_reasons[Len(application_.rejection_reasons)]
       IN  IF HasKey(REJECTION_TEMPLATES, primary_reason)
           THEN LET template_info == Lookup(REJECTION_TEMPLATES, primary_reason)
                IN  "[TEMPLATE: " \o template_info.summary \o "]\n"
                      \o template_info.template
           ELSE UnknownReasonFeedback

\* generate_feedback_paragraph(application)
generate_feedback_paragraph(application_) ==
  IF application_.rejection_reasons = <<>>
  THEN EmptyReasonsFeedback(application_)
  ELSE LET primary_reason == application_.rejection_reasons[1]
       IN  IF HasKey(REJECTION_TEMPLATES, primary_reason)
           THEN LET template_info == Lookup(REJECTION_TEMPLATES, primary_reason)
                IN  "[TEMPLATE: " \o template_info.summary \o "]\n"
                      \o template_info.template
           ELSE UnknownReasonFeedback

\* how often generate_feedback_paragraph reads REJECTION_TEMPLATES: not at
\* all on the early return, once for `in`, once more for the subscript
catalog_reads(application_) ==
  IF application_.rejection_reasons = <<>> THEN 0
  ELSE IF HasKey(REJECTION_TEMPLATES, application_.rejection_reasons[1]) THEN 2
  ELSE 1

\* variant: the platform rule is tested before the building/develop rule
get_closing_wish_platform_first(application_) ==
  LET description_lower == Lower(application_.description)
  IN  IF Contains(description_lower, "platform")
      THEN "developing the platform"
      ELSE IF Contains(description_lower, "building")
              \/ Contains(description_lower, "develop")
      THEN "building the company"
      ELSE IF Contains(description_lower, "research")
      THEN "developing your ideas"
      ELSE IF Contains(description_lower, "product")
      THEN "building and refining the product"
      ELSE "developing your ideas"

\* get_closing_wish(application)
get_closing_wish(application_) ==
  LET description_lower == Lower(application_.description)
  IN  IF Contains(description_lower, "building")
         \/ Contains(description_lower, "develop")
      THEN "building the company"
      ELSE IF Contains(description_lower, "platform")
      THEN "developing the platform"
      ELSE IF Contains(description_lower, "research")
      THEN "developing your ideas"
      ELSE IF Contains(description_lower, "product")
      THEN "building and refining the product"
      ELSE "developing your ideas"

\* variant: the greeting tests `is not None` instead of truthiness
generate_rejection_email_greets_none(application_) ==
  LET greeting == IF application_.founder_names.some
                  THEN "Hi " \o application_.founder_names.str \o ","
                  ELSE "Hi there,"
      opening == "Thanks very much for expressing interest in being part of SAIF and our efforts to create a better future with AI. Unfortunately at this time we don't think that "
                   \o application_.company_name
                   \o " fits within the criteria we are using for our fund."
      feedback == generate_feedback_paragraph(application_)
      closing == "We wish you the best as you continue "
                   \o get_closing_wish(application_) \o ".\n\nBest,\nThe SAIF Team"
  IN  greeting \o "\n\n" \o opening \o "\n\n" \o feedback \o "\n\n" \o closing

\* variant: feedback and opening change places
generate_rejection_email_feedback_first(application_) ==
  LET greeting == IF Truthy(application_.founder_names)
                  THEN "Hi " \o application_.founder_names.str \o ","
                  ELSE "Hi there,"
      opening == "Thanks very much for expressing interest in being part of SAIF and our efforts to create a better future with AI. Unfortunately at this time we don't think that "
                   \o application_.company_name
                   \o " fits within the criteria we are using for our fund."
      feedback == generate_feedback_paragraph(application_)
      closing == "We wish you the best as you continue "
                   \o get_closing_wish(application_) \o ".\n\nBest,\nThe SAIF Team"
  IN  greeting \o "\n\n" \o feedback \o "\n\n" \o opening \o "\n\n" \o closing

\* generate_rejection_email(application)
generate_rejection_email(application_) ==
  LET greeting == IF Truthy(application_.founder_names)
                  THEN "Hi " \o application_.founder_names.str \o ","
                  ELSE "Hi there,"
      opening == "Thanks very much for expressing interest in being part of SAIF and our efforts to create a better future with AI. Unfortunately at this time we don't think that "
                   \o application_.company_name
                   \o " fits within the criteria we are using for our fund."
      feedback == generate_feedback_paragraph(application_)
      closing == "We wish you the best as you continue "
                   \o get_closing_wish(application_) \o ".\n\nBest,\nThe SAIF Team"
  IN  greeting \o "\n\n" \o opening \o "\n\n" \o feedback \o "\n\n" \o closing

(* ------------------------------ front end ----------------------------- *)

Application(company_name, contact_email, founder_names, description, rejection_reasons) ==
  [company_name |-> company_name,
   contact_email |-> contact_email,
   founder_names |-> founder_names,
   description |-> description,
   rejection_reasons |-> rejection_reasons]

RECURSIVE ExampleLines(_)
\* the five print() calls of the loop body, for examples i..3
ExampleLines(i) ==
  IF i > Len(examples) THEN <<>>
  ELSE <<"\n--- Example " \o ToString(i) \o ": " \o examples[i].company \o " ---",
         "Rejection Reason: " \o examples[i].reason,
         Repeat("-", 40),
         examples[i].email,
         "">>
       \o ExampleLines(i + 1)

\* what print_examples() writes
print_examples ==
  <<"\n" \o Repeat("=", 80),
    "EXAMPLE REJECTION EMAILS FROM SAIF",
    Repeat("=", 80)>>
  \o ExampleLines(1)

\* what parser.print_help() writes: argparse renders it from the declared
\* options; only its presence matters here
print_help == <<"usage: saif_rejection_agent.py [-h] [--examples] [--interactive] [--company COMPANY] [--contact CONTACT] [--founders FOUNDERS] [--description DESCRIPTION] [--reason REASON]">>

RECURSIVE DescriptionEnd(_, _)
\* the index of the blank line that ends the description, reading from line i
DescriptionEnd(lines, i) ==
  IF lines[i] = "" THEN i ELSE DescriptionEnd(lines, i + 1)

\* the menu line print() writes for the i-th catalog entry
MenuLine(i) ==
  "  " \o ToString(i) \o ". " \o REJECTION_TEMPLATES[i].tag \o ": "
    \o REJECTION_TEMPLATES[i].summary

NonBlank(x) == Strip(x) # ""

InRange(i) == 0 <= i /\ i < Len(REJECTION_TEMPLATES)

\* int(x.strip()) - 1 for each kept field (for fields that all parse)
reason_indices_of(fields) == [k \in DOMAIN fields |-> IntOf(Strip(fields[k])) - 1]

\* [list(REJECTION_TEMPLATES.keys())[i] for i in reason_indices if 0 <= i < len(...)]
rejection_reasons_of(reason_indices) ==
  LET kept == SelectSeq(reason_indices, InRange)
  IN  [k \in DOMAIN kept |-> Keys(REJECTION_TEMPLATES)[kept[k] + 1]]

\* interactive_mode() reading `lines` from stdin: what it wrote, the
\* Application it built (if it got that far) and the exception that ended it
interactive_mode(lines) ==
  LET company_name == Strip(lines[1])
      contact_email == Strip(lines[2])
      founder_names == IF Strip(lines[3]) # "" THEN Some(Strip(lines[3])) ELSE None
      blank == DescriptionEnd(lines, 4)
      description_lines == SubSeq(lines, 4, blank - 1)
      description == Join("\n", description_lines)
      reason_input == Strip(lines[blank + 1])
      fields == SelectSeq(SplitComma(reason_input), NonBlank)
      prompts ==
        <<"\n" \o Repeat("=", 60),
          "SAIF Rejection Email Generator - Interactive Mode",
          Repeat("=", 60),
          "\nEnter application details:",
          "Company Name: ",
          "Contact Email: ",
          "Founder Name(s) [leave blank if unknown]: ",
          "\nEnter company description (press Enter twice to finish):",
          "\nAvailable rejection reasons:">>
        \o [i \in DOMAIN REJECTION_TEMPLATES |-> MenuLine(i)]
        \o <<"\nEnter rejection reason number(s), comma-separated: ">>
  IN  IF \E k \in DOMAIN fields : ~IntParses(fields[k])
      THEN [stdout |-> prompts, application |-> <<>>, raised |-> "ValueError",
            consulted |-> 0]
      ELSE LET app == Application(company_name, contact_email, founder_names,
                                  description,
                                  rejection_reasons_of(reason_indices_of(fields)))
           IN  [stdout |-> prompts
                             \o <<"\n" \o Repeat("=", 60),
                                  "GENERATED REJECTION EMAIL",
                                  Repeat("=", 60),
                                  "",
                                  generate_rejection_email(app)>>,
                application |-> <<app>>,
                raised |-> "",
                consulted |-> catalog_reads(app)]

(* ------------------------------- inputs ------------------------------- *)

CompanyNames == {"Acme AI", "Sec0"}

ContactEmails == {"", "founder@acme.ai"}

FounderNames == {None, Some(""), Some("Ashish"), Some("there")}

Descriptions ==
  {"We are building a platform",
   "Our research shows...",
   "A simple product",
   "AI productivity tool",
   "PLATFORM for Research",
   "Research product",
   "Product DEVELOPMENT",
   "A Platform product",
   "We Develop research",
   ""}

\* two catalog tags and one tag the catalog does not hold
ReasonTags == {"not_ai_safety", "too_conceptual", "nonexistent_tag"}

RECURSIVE SeqsUpTo(_, _)
\* the sequences over S of length at most n
SeqsUpTo(S, n) ==
  IF n = 0 THEN {<<>>}
  ELSE LET shorter == SeqsUpTo(S, n - 1)
       IN  shorter \cup {Append(s, x) : s \in shorter, x \in S}

ReasonLists == SeqsUpTo(ReasonTags, MaxReasons)

Applications ==
  {Application(c, e, f, d, r) :
     c \in CompanyNames, e \in ContactEmails, f \in FounderNames,
     d \in Descriptions, r \in ReasonLists}

\* an optional list (--reason with action="append"): absent, or the values given
NoList == [some |-> FALSE, list |-> <<>>]

SomeList(l) == [some |-> TRUE, list |-> l]

Namespace(examples_, interactive_, company, contact, founders, description, reason) ==
  [examples |-> examples_, interactive |-> interactive_, company |-> company,
   contact |-> contact, founders |-> founders, description |-> description,
   reason |-> reason]

\* command lines with neither --examples nor --interactive
CommandLineNamespaces ==
  {Namespace(FALSE, FALSE, c, e, f, d, r) :
     c \in {None, Some(""), Some("Acme AI")},
     e \in {None, Some("founder@acme.ai")},
     f \in {None, Some(""), Some("Ashish")},
     d \in {None, Some(""), Some("AI productivity tool"), Some("We are building a platform")},
     r \in {NoList} \cup {SomeList(l) : l \in ReasonLists \ {<<>>}}}

\* command lines with a mode flag, alone or on top of a full command line
FlagNamespaces ==
  {Namespace(x, i, c, None, None, d, NoList) :
     x \in BOOLEAN, i \in BOOLEAN,
     c \in {None, Some("Acme AI")}, d \in {None, Some("AI productivity tool")}}

Namespaces == CommandLineNamespaces \cup FlagNamespaces

DescriptionLines == {"We are building a platform", "Our research shows..."}

ReasonInputs ==
  {"", "1", "4", " 2 , 7 ", "0", "8", "-1", "1,0,4,99", "4,1", "1,,4", "abc",
   "1,abc", "two, 4", "1.5", "1;4", "+3", "1_0", "7,-2,3"}

\* what a user may type: three answers, the description lines and the blank
\* line ending them, and the reason numbers
StdinLines ==
  {<<c, "founder@acme.ai", f>> \o d \o <<"", r>> :
     c \in {"", "   ", " Acme AI "},
     f \in {"", "Ashish "},
     d \in SeqsUpTo(DescriptionLines, MaxDescriptionLines),
     r \in ReasonInputs}

(* ------------------------------- actions ------------------------------ *)

Init ==
  /\ REJECTION_TEMPLATES = CatalogDeclaration
  /\ pc = "idle"
  /\ entry = ""
  /\ args = <<>>
  /\ stdin = <<>>
  /\ application = <<>>
  /\ ret = ""
  /\ stdout = <<>>
  /\ raised = ""
  /\ consulted = 0
  /\ calls = 0

\* a caller invokes generate_rejection_email(app)
Call_generate_rejection_email(app) ==
  /\ pc = "idle"
  /\ pc' = "returned"
  /\ entry' = "generate_rejection_email"
  /\ application' = <<app>>
  /\ ret' = generate_rejection_email(app)
  /\ consulted' = catalog_reads(app)
  /\ UNCHANGED <<REJECTION_TEMPLATES, calls, args, stdin, stdout, raised>>

\* a caller invokes generate_feedback_paragraph(app)
Call_generate_feedback_paragraph(app) ==
  /\ pc = "idle"
  /\ pc' = "returned"
  /\ entry' = "generate_feedback_paragraph"
  /\ application' = <<app>>
  /\ ret' = generate_feedback_paragraph(app)
  /\ consulted' = catalog_reads(app)
  /\ UNCHANGED <<REJECTION_TEMPLATES, calls, args, stdin, stdout, raised>>

\* a caller invokes get_closing_wish(app)
Call_get_closing_wish(app) ==
  /\ pc = "idle"
  /\ pc' = "returned"
  /\ entry' = "get_closing_wish"
  /\ application' = <<app>>
  /\ ret' = get_closing_wish(app)
  /\ UNCHANGED <<REJECTION_TEMPLATES, calls, args, stdin, stdout, raised, consulted>>

\* main() with --examples
main_examples(ns) ==
  /\ pc = "idle"
  /\ ns.examples
  /\ pc' = "returned"
  /\ entry' = "main"
  /\ args' = <<ns>>
  /\ stdout' = print_examples
  /\ UNCHANGED <<REJECTION_TEMPLATES, calls, stdin, application, ret, raised, consulted>>

\* variant: interactive_mode() pops each catalog entry it lists
main_interactive_consumes_catalog(ns, lines) ==
  /\ pc = "idle"
  /\ ~ns.examples
  /\ ns.interactive
  /\ LET run == interactive_mode(lines)
     IN  /\ pc' = "returned"
         /\ entry' = "interactive_mode"
         /\ args' = <<ns>>
         /\ stdin' = lines
         /\ application' = run.application
         /\ stdout' = run.stdout
         /\ raised' = run.raised
         /\ consulted' = run.consulted
  /\ REJECTION_TEMPLATES' = <<>>
  /\ UNCHANGED <<calls, ret>>

\* main() with --interactive: the whole of interactive_mode() on `lines`
main_interactive(ns, lines) ==
  /\ pc = "idle"
  /\ ~ns.examples
  /\ ns.interactive
  /\ LET run == interactive_mode(lines)
     IN  /\ pc' = "returned"
         /\ entry' = "interactive_mode"
         /\ args' = <<ns>>
         /\ stdin' = lines
         /\ application' = run.application
         /\ stdout' = run.stdout
         /\ raised' = run.raised
         /\ consulted' = run.consulted
  /\ UNCHANGED <<REJECTION_TEMPLATES, calls, ret>>

\* main() in command line mode: --company and --description both given and non-empty
main_command_line(ns) ==
  /\ pc = "idle"
  /\ ~ns.examples
  /\ ~ns.interactive
  /\ Truthy(ns.company) /\ Truthy(ns.description)
  /\ LET app == Application(ns.company.str,
                            IF Truthy(ns.contact) THEN ns.contact.str ELSE "",
                            ns.founders,
                            ns.description.str,
                            IF ns.reason.some /\ ns.reason.list # <<>>
                            THEN ns.reason.list ELSE <<>>)
     IN  /\ application' = <<app>>
         /\ stdout' = <<generate_rejection_email(app)>>
         /\ consulted' = catalog_reads(app)
  /\ pc' = "returned"
  /\ entry' = "main"
  /\ args' = <<ns>>
  /\ UNCHANGED <<REJECTION_TEMPLATES, calls, stdin, ret, raised>>

\* main() with too little to build an Application from
main_help(ns) ==
  /\ pc = "idle"
  /\ ~ns.examples
  /\ ~ns.interactive
  /\ ~(Truthy(ns.company) /\ Truthy(ns.description))
  /\ pc' = "returned"
  /\ entry' = "main"
  /\ args' = <<ns>>
  /\ stdout' = print_help
  /\ UNCHANGED <<REJECTION_TEMPLATES, calls, stdin, application, ret, raised, consulted>>

\* the call is over: its Application and its result are dropped, the
\* module-level catalog stays for the next call
Return ==
  /\ pc = "returned"
  /\ pc' = "idle"
  /\ entry' = ""
  /\ args' = <<>>
  /\ stdin' = <<>>
  /\ application' = <<>>
  /\ ret' = ""
  /\ stdout' = <<>>
  /\ raised' = ""
  /\ consulted' = 0
  /\ calls' = calls + 1
  /\ UNCHANGED REJECTION_TEMPLATES

\* a call starts only when none is in progress (single-threaded, synchronous)
CanCall == pc = "idle" /\ calls < MaxCalls

Next ==
  \/ CanCall /\ \E app \in Applications : Call_generate_rejection_email(app)
  \/ CanCall /\ \E app \in Applications : Call_generate_feedback_paragraph(app)
  \/ CanCall /\ \E app \in Applications : Call_get_closing_wish(app)
  \/ CanCall /\ \E ns \in Namespaces : main_examples(ns)
  \/ CanCall /\ \E ns \in Namespaces, lines \in StdinLines : main_interactive(ns, lines)
  \/ CanCall /\ \E ns \in Namespaces : main_command_line(ns)
  \/ CanCall /\ \E ns \in Namespaces : main_help(ns)
  \/ Return

Spec == Init /\ [][Next]_vars

(* ----------------------------- properties ----------------------------- *)

\* a call of function `name` has ended
Returned(name) == pc = "returned" /\ entry = name

\* the Application of the call that has ended
TheApp == application[1]

\* the emails generate_rejection_email produced in the call that has ended:
\* returned to a direct caller, printed last by main and interactive_mode
EmailOut ==
  IF Returned("generate_rejection_email") THEN <<ret>>
  ELSE IF pc = "returned" /\ entry \in {"main", "interactive_mode"}
          /\ application # <<>>
       THEN <<stdout[Len(stdout)]>>
       ELSE <<>>

\* the primary reason of the call's Application is no catalog key
UnknownPrimary ==
  /\ Returned("generate_feedback_paragraph")
  /\ TheApp.rejection_reasons # <<>>
  /\ \A i \in DOMAIN CatalogDeclaration :
       CatalogDeclaration[i].tag # TheApp.rejection_reasons[1]

\* C1 as stated: for an unknown primary reason generate_feedback_paragraph
\* returns the sentence it returns for the same Application with no reasons,
\* and the sentence cites company_name; nothing is raised.
C1_SameFallbackAsEmpty ==
  UnknownPrimary =>
    /\ ret = generate_feedback_paragraph([TheApp EXCEPT !.rejection_reasons = <<>>])
    /\ Contains(ret, TheApp.company_name)
    /\ raised = ""

\* C1 amended: for an unknown primary reason generate_feedback_paragraph
\* returns one fixed generic sentence, the same for every Application, which
\* does not cite company_name and is not the empty-reasons fallback; nothing
\* is raised.
C1_FixedGenericFallback ==
  UnknownPrimary =>
    /\ ret = "The project does not currently align with SAIF's focus on companies building practical technologies that directly improve safety and security in real-world AI systems."
    /\ ~Contains(ret, TheApp.company_name)
    /\ ret # generate_feedback_paragraph([TheApp EXCEPT !.rejection_reasons = <<>>])
    /\ raised = ""

C1_Witness ==
  /\ UnknownPrimary
  /\ TheApp.rejection_reasons = <<"nonexistent_tag">>
  /\ TheApp.company_name = "Sec0"
  /\ StartsWith(ret, "The project does not")

\* the two-line text the catalog as declared gives for a tag
DeclaredTemplateText(tag) ==
  LET e == CatalogDeclaration[CHOOSE i \in DOMAIN CatalogDeclaration :
                                CatalogDeclaration[i].tag = tag]
  IN  "[TEMPLATE: " \o e.summary \o "]" \o "\n" \o e.template

IsDeclaredTag(tag) ==
  \E i \in DOMAIN CatalogDeclaration : CatalogDeclaration[i].tag = tag

\* C2 as stated: whenever rejection_reasons contains a catalog tag, at any
\* position, the feedback contains "[TEMPLATE: <summary>]" for that tag with
\* the tag's unmodified template body on the next line.
C2_AnyCatalogTagLabelled ==
  Returned("generate_feedback_paragraph") =>
    \A i \in DOMAIN TheApp.rejection_reasons :
      IsDeclaredTag(TheApp.rejection_reasons[i]) =>
        Contains(ret, DeclaredTemplateText(TheApp.rejection_reasons[i]))

\* C2 amended: whenever the FIRST element of rejection_reasons is a catalog
\* tag, the feedback is "[TEMPLATE: <summary>]" for that tag followed on the
\* next line by the tag's unmodified template body, placeholders such as
\* {company_name} left as literal text.
C2_FirstCatalogTagLabelled ==
  (/\ Returned("generate_feedback_paragraph")
   /\ TheApp.rejection_reasons # <<>>
   /\ IsDeclaredTag(TheApp.rejection_reasons[1])) =>
    /\ ret = DeclaredTemplateText(TheApp.rejection_reasons[1])
    /\ Contains(ret, "{company_name}")
    /\ ~Contains(ret, TheApp.company_name)

C2_Witness ==
  /\ Returned("generate_feedback_paragraph")
  /\ TheApp.rejection_reasons = <<"too_conceptual", "not_ai_safety">>
  /\ StartsWith(ret, "[TEMPLATE: Approach is too conceptual or lacks clear technical pathway]\nYour proposal explores ambitious ideas around {topic_area}.")

\* C3: with rejection_reasons = [] generate_feedback_paragraph returns the
\* fixed sentence whose only variable part is company_name, and it does not
\* read the catalog.
C3_EmptyReasonsFallback ==
  (Returned("generate_feedback_paragraph") /\ TheApp.rejection_reasons = <<>>) =>
    /\ ret = "While we appreciate your submission, " \o TheApp.company_name
               \o " does not currently align with our investment criteria."
    /\ consulted = 0

C3_Witness ==
  /\ Returned("generate_feedback_paragraph")
  /\ TheApp.rejection_reasons = <<>>
  /\ ret = "While we appreciate your submission, Acme AI does not currently align with our investment criteria."

\* C4: the email starts with "Hi <founder_names>," exactly when founder_names
\* is present and non-empty, and with "Hi there," when it is None or "".
C4_Greeting ==
  \A k \in DOMAIN EmailOut :
    LET f == TheApp.founder_names
    IN  /\ (f.some /\ f.str # "") => StartsWith(EmailOut[k], "Hi " \o f.str \o ",\n\n")
        /\ ~(f.some /\ f.str # "") => StartsWith(EmailOut[k], "Hi there,\n\n")
        /\ (f.some /\ f.str = "") => ~StartsWith(EmailOut[k], "Hi ,")

C4_Witness ==
  /\ Returned("generate_rejection_email")
  /\ TheApp.founder_names = Some("")
  /\ StartsWith(ret, "Hi there,")

\* C5: get_closing_wish returns the phrase of the first rule, in the order
\* building/develop, platform, research, product, that the lower-cased
\* description matches, and "developing your ideas" when none does.
C5_ClosingWishPriority ==
  Returned("get_closing_wish") =>
    LET d == Lower(TheApp.description)
        has(w) == Contains(d, w)
    IN  /\ ret \in {"building the company", "developing the platform",
                    "developing your ideas", "building and refining the product"}
        /\ (has("building") \/ has("develop")) => ret = "building the company"
        /\ (~has("building") /\ ~has("develop") /\ has("platform"))
             => ret = "developing the platform"
        /\ (~has("building") /\ ~has("develop") /\ ~has("platform") /\ has("research"))
             => ret = "developing your ideas"
        /\ (~has("building") /\ ~has("develop") /\ ~has("platform")
              /\ ~has("research") /\ has("product"))
             => ret = "building and refining the product"
        /\ (~has("building") /\ ~has("develop") /\ ~has("platform")
              /\ ~has("research") /\ ~has("product"))
             => ret = "developing your ideas"
        /\ TheApp.description = "We are building a platform" => ret = "building the company"
        /\ TheApp.description = "Product DEVELOPMENT" => ret = "building the company"
        /\ TheApp.description = "PLATFORM for Research" => ret = "developing the platform"
        /\ TheApp.description = "Research product" => ret = "developing your ideas"
        /\ TheApp.description = "A simple product" => ret = "building and refining the product"

C5_Witness ==
  /\ Returned("get_closing_wish")
  /\ TheApp.description = "PLATFORM for Research"
  /\ ret = "developing the platform"

\* the text from position i of s on
From(s, i) == SubSeq(s, i, Len(s))

\* C6: the email is greeting, opening, feedback and closing in that order,
\* adjacent parts one blank line apart; the feedback is what
\* generate_feedback_paragraph returns, the closing sentence carries the
\* phrase of get_closing_wish, and the text ends with the signature.
C6_Assembly ==
  \A k \in DOMAIN EmailOut :
    LET email == EmailOut[k]
        greeting == IF TheApp.founder_names.some /\ TheApp.founder_names.str # ""
                    THEN "Hi " \o TheApp.founder_names.str \o ","
                    ELSE "Hi there,"
        opening == "Thanks very much for expressing interest in being part of SAIF and our efforts to create a better future with AI. Unfortunately at this time we don't think that "
                     \o TheApp.company_name
                     \o " fits within the criteria we are using for our fund."
        feedback == generate_feedback_paragraph(TheApp)
        wish == "We wish you the best as you continue "
                  \o get_closing_wish(TheApp) \o "."
        signature == "Best,\nThe SAIF Team"
        p1 == Len(greeting) + 1
        p2 == p1 + 2 + Len(opening)
        p3 == p2 + 2 + Len(feedback)
        p4 == p3 + 2 + Len(wish)
    IN  /\ StartsWith(email, greeting)
        /\ StartsWith(From(email, p1), "\n\n" \o opening)
        /\ StartsWith(From(email, p2), "\n\n" \o feedback)
        /\ StartsWith(From(email, p3), "\n\n" \o wish)
        /\ From(email, p4) = "\n\n" \o signature
        /\ EndsWith(email, "Best,\nThe SAIF Team")

C6_Witness ==
  /\ Returned("generate_rejection_email")
  /\ TheApp.founder_names = Some("Ashish")
  /\ TheApp.rejection_reasons = <<"not_ai_safety">>
  /\ TheApp.description = "A simple product"
  /\ EndsWith(ret, "Because of this, the project falls outside the scope of SAIF's investment mandate.\n\nWe wish you the best as you continue building and refining the product.\n\nBest,\nThe SAIF Team")

\* the comma-separated fields of the reason line that are decimal numbers
\* between 1 and the number of catalog entries
ValidIndexFields(line) ==
  LET valid(x) == IntParses(x) /\ 1 <= IntOf(x) /\ IntOf(x) <= Len(CatalogDeclaration)
  IN  SelectSeq(SplitComma(line), valid)

\* C7 as stated: whatever the reason line holds, interactive_mode raises
\* nothing, constructs an Application, and its rejection_reasons are the
\* catalog tags of the valid 1-based indices, in the order entered.
C7_MalformedIndicesFiltered ==
  Returned("interactive_mode") =>
    /\ raised = ""
    /\ application # <<>>
    /\ LET fields == ValidIndexFields(stdin[Len(stdin)])
       IN  TheApp.rejection_reasons
             = [k \in DOMAIN fields |-> CatalogDeclaration[IntOf(fields[k])].tag]

\* the (tag, summary) pairs in declaration order
DeclaredMenu ==
  <<"  1. not_ai_safety: Product is not focused on AI safety",
    "  2. early_stage_no_team: Too early stage with incomplete founding team",
    "  3. no_tech_cofounder: Lacks technical founding leadership",
    "  4. too_conceptual: Approach is too conceptual or lacks clear technical pathway",
    "  5. safety_angle_unclear: Safety impact is not clear or central to the product",
    "  6. not_for_profit: Not a for-profit company with scalable business model",
    "  7. general_not_aligned: General non-alignment with SAIF focus">>

\* C8: the catalog always holds the entries it was declared with, and every
\* menu interactive_mode prints lists the (tag, summary) pairs in
\* declaration order.
C8_CatalogNeverMutated ==
  /\ REJECTION_TEMPLATES = CatalogDeclaration
  /\ Returned("interactive_mode") =>
       SubSeq(stdout, 10, 9 + Len(DeclaredMenu)) = DeclaredMenu

C8_Witness ==
  /\ calls >= 1
  /\ Returned("interactive_mode")
  /\ raised = ""
  /\ stdout[10] = "  1. not_ai_safety: Product is not focused on AI safety"
  /\ stdout[16] = "  7. general_not_aligned: General non-alignment with SAIF focus"

\* C9 as stated: every Application main or interactive_mode constructs and
\* passes to generate_rejection_email has a non-empty company_name.
C9_CompanyNameNonEmpty ==
  (pc = "returned" /\ entry \in {"main", "interactive_mode"} /\ application # <<>>)
    => TheApp.company_name # ""

\* C10: the email depends on rejection_reasons only through its first
\* element, and not on contact_email: replacing the later elements and the
\* contact address leaves generate_rejection_email's result unchanged.
C10_OnlyFirstReasonMatters ==
  (Returned("generate_rejection_email") /\ TheApp.rejection_reasons # <<>>) =>
    \A rest \in SeqsUpTo(ReasonTags, MaxReasons - 1),
       e \in ContactEmails \cup {"someone@else.org"} :
      generate_rejection_email(
        [TheApp EXCEPT !.rejection_reasons = <<TheApp.rejection_reasons[1]>> \o rest,
                       !.contact_email = e]) = ret

C10_Witness ==
  /\ Returned("generate_rejection_email")
  /\ TheApp.rejection_reasons = <<"not_ai_safety", "nonexistent_tag">>
  /\ TheApp.contact_email = "founder@acme.ai"
  /\ Contains(ret, "[TEMPLATE: Product is not focused on AI safety]")
====
